---------------------------- MODULE Spec2Model ----------------------------
(***************************************************************************)
(* Headwind: inline style strings are parsed, compiled to atomic classes   *)
(* and merged into one module-level stylesheet that the plugin's render    *)
(* serializes and clears.                                                  *)
(*                                                                         *)
(* A JavaScript string is modelled as a sequence of one-character strings, *)
(* an array as a sequence, a Map and a Set as sequences in insertion order *)
(* without repeated keys / members.                                        *)
(***************************************************************************)
EXTENDS Integers, Sequences, FiniteSets, TLC

(***************************** STRINGS *************************************)

\* The printable ASCII characters of code 32 to 95 and of code 97 to 126, in code
\* order. Code 96 (the grave accent) is left out: no text of the model holds it.
AsciiLow ==
    << " ", "!", "\"", "#", "$", "%", "&", "'", "(", ")", "*", "+", ",", "-", ".", "/",
       "0", "1", "2", "3", "4", "5", "6", "7", "8", "9", ":", ";", "<", "=", ">", "?",
       "@", "A", "B", "C", "D", "E", "F", "G", "H", "I", "J", "K", "L", "M", "N", "O",
       "P", "Q", "R", "S", "T", "U", "V", "W", "X", "Y", "Z", "[", "\\", "]", "^", "_" >>

AsciiHigh ==
    << "a", "b", "c", "d", "e", "f", "g", "h", "i", "j", "k", "l", "m", "n", "o",
       "p", "q", "r", "s", "t", "u", "v", "w", "x", "y", "z", "{", "|", "}", "~" >>

\* char.charCodeAt(0) for a printable ASCII character.
charCodeAt(char) ==
    IF \E i \in 1..Len(AsciiLow) : AsciiLow[i] = char
    THEN 31 + (CHOOSE i \in 1..Len(AsciiLow) : AsciiLow[i] = char)
    ELSE 96 + (CHOOSE i \in 1..Len(AsciiHigh) : AsciiHigh[i] = char)

RECURSIVE Concat(_)
\* The concatenation of a sequence of strings (template literals, a + b).
Concat(parts) ==
    IF parts = << >> THEN << >> ELSE Head(parts) \o Concat(Tail(parts))

\* text.startsWith(prefix)
startsWith(text, prefix) ==
    /\ Len(text) >= Len(prefix)
    /\ SubSeq(text, 1, Len(prefix)) = prefix

\* text.indexOf(pattern, from): the 0-based index of the first occurrence of
\* pattern at or after index from, -1 when there is none.
indexOfFrom(text, pattern, from) ==
    LET hits == { i \in from..(Len(text) - Len(pattern)) :
                     SubSeq(text, i + 1, i + Len(pattern)) = pattern }
    IN IF hits = {} THEN -1 ELSE CHOOSE i \in hits : \A j \in hits : i <= j

indexOf(text, pattern) == indexOfFrom(text, pattern, 0)

\* text.slice(start, end) with the relative-index rules of String.prototype.slice:
\* a negative index counts from the end, both are clamped to 0..length, and an
\* end before the start gives the empty string.
sliceIndex(len, k) ==
    IF k < 0 THEN (IF len + k < 0 THEN 0 ELSE len + k)
    ELSE (IF k > len THEN len ELSE k)

slice(text, start, end) ==
    LET from == sliceIndex(Len(text), start)
        to   == sliceIndex(Len(text), end)
    IN SubSeq(text, from + 1, to)

\* text.slice(start)
sliceFrom(text, start) == slice(text, start, Len(text))

isWhitespace(char) == char \in {" ", "\t", "\n", "\r"}

\* text.trim()
trim(text) ==
    LET solid == { i \in 1..Len(text) : ~isWhitespace(text[i]) }
    IN IF solid = {} THEN << >>
       ELSE SubSeq(text, CHOOSE i \in solid : \A j \in solid : i <= j,
                         CHOOSE i \in solid : \A j \in solid : i >= j)

(****************************** HASH ***************************************)

alphabet ==
    << "0", "1", "2", "3", "4", "5", "6", "7", "8", "9", "0", "a", "b", "c", "d", "e",
       "f", "g", "h", "i", "j", "k", "l", "m", "n", "o", "p", "q", "r", "s", "t", "u",
       "v", "w", "x", "y", "z", "A", "B", "C", "D", "E", "F", "G", "H", "I", "J", "K",
       "L", "M", "N", "O", "P", "Q", "R", "S", "T", "U", "V", "W", "X", "Y", "Z", "-" >>

\* 0b111111 shifted left by 0, 6, 12, 18 and 24 bits.
masks == << 63, 4032, 258048, 16515072, 1056964608 >>

\* An unsigned 32-bit number is held as its two 16-bit halves, hi * 2^16 + lo.
Half == 65536

Uint32(hi, lo) == [hi |-> hi, lo |-> lo]

hashSeed == Uint32(0, 313)

\* A faulty accumulation, with 31 for 311.
hashAccumulate31(hash, char) ==
    LET low  == hash.lo * 31 + charCodeAt(char)
        high == hash.hi * 31 + (low \div Half)
    IN Uint32(high % Half, low % Half)

\* hash * 311 + char.charCodeAt(0) >>> 0: the sum is exact in a double (it is
\* below 2^41) and >>> 0 keeps it modulo 2^32.
hashAccumulate(hash, char) ==
    LET low  == hash.lo * 311 + charCodeAt(char)
        high == hash.hi * 311 + (low \div Half)
    IN Uint32(high % Half, low % Half)

RECURSIVE bitAndBits(_, _, _)
\* The bitwise and of the low n bits of a and b.
bitAndBits(a, b, n) ==
    IF n = 0 THEN 0
    ELSE (a % 2) * (b % 2) + 2 * bitAndBits(a \div 2, b \div 2, n - 1)

\* hashInt & mask, for a mask below 2^31 (the result is then not negative).
bitAnd(hashInt, mask) ==
    bitAndBits(hashInt.lo, mask % Half, 16)
        + Half * bitAndBits(hashInt.hi, mask \div Half, 16)

\* value >>> count for a value in 0 .. 2^31 - 1
shiftRight(value, count) == value \div (2 ^ count)

RECURSIVE hashReduce(_, _, _, _)
\* [...data].reduce(hashAccumulate, hash) over the characters from-th to to-th of
\* data, left to right: the left half first, then the right half from its result
\* (the test of left.hi, always true, makes TLC evaluate the left half first and
\* keeps the evaluation's depth logarithmic).
hashReduce(data, from, to, hash) ==
    IF from > to THEN hash
    ELSE IF from = to THEN hashAccumulate(hash, data[from])
    ELSE LET middle == (from + to) \div 2
             left   == hashReduce(data, from, middle, hash)
         IN IF left.hi >= 0 THEN hashReduce(data, middle + 1, to, left) ELSE left

\* masks.map((mask, index) => alphabet[(hashInt & mask) >>> index * 6]).join('')
hashToken(hashInt) ==
    [ k \in 1..Len(masks) |->
        alphabet[shiftRight(bitAnd(hashInt, masks[k]), (k - 1) * 6) + 1] ]

hash(data) == hashToken(hashReduce(data, 1, Len(data), hashSeed))


(****************************** PARSE **************************************)

\* text.search(/[;{]/): the 0-based index of the first ';' or '{', -1 without one.
search(text) ==
    LET hits == { i \in 1..Len(text) : text[i] \in {";", "{"} }
    IN IF hits = {} THEN -1
       ELSE (CHOOSE i \in hits : \A j \in hits : i <= j) - 1

\* text.split(separator) for a one-character separator: the pieces between all of
\* its occurrences, one more piece than there are occurrences.
split(text, separator) ==
    LET cuts    == { i \in 1..Len(text) : text[i] = separator }
        cut(k)  == IF k = 0 THEN 0
                   ELSE IF k > Cardinality(cuts) THEN Len(text) + 1
                   ELSE CHOOSE i \in cuts : Cardinality({ j \in cuts : j < i }) = k - 1
    IN [ k \in 1..(Cardinality(cuts) + 1) |-> SubSeq(text, cut(k - 1) + 1, cut(k) - 1) ]

\* array.map(trim)
mapTrim(array) == [ k \in 1..Len(array) |-> trim(array[k]) ]

\* One entry of a ParsedCSS array. A simple entry is the tuple of strings that
\* line.split(':').map(trim) gave (cast to [string, string]); a nested entry is
\* [rule, properties] with an array in second place, which is what isNested tests.
SimpleEntry(tuple) == [nested |-> FALSE, tuple |-> tuple, properties |-> << >>]

NestedEntry(rule, properties) ==
    [nested |-> TRUE, tuple |-> << rule >>, properties |-> properties]

\* What a call gives back: a value, or an exception that unwinds through it.
Returned(value) == [thrown |-> FALSE, value |-> value]

RangeError == [thrown |-> TRUE, value |-> << >>]

\* The depth of calls the engine allows before it throws RangeError (maximum call
\* stack size exceeded).
MaxStack == 8

RECURSIVE parse(_, _, _)
\* parse(text, result) called at the given depth of the call stack.
parse(text, result, depth) ==
    IF depth > MaxStack THEN RangeError
    ELSE IF trim(text) = << >> THEN Returned(result)
    ELSE
      LET nextCharAt == search(text) IN
      IF nextCharAt = -1
      THEN LET property == mapTrim(split(text, ":"))
           IN Returned(Append(result, SimpleEntry(property)))
      ELSE IF text[nextCharAt + 1] = ";"
      THEN LET line           == slice(text, 0, nextCharAt)
               property       == mapTrim(split(line, ":"))
               remainingLines == sliceFrom(text, nextCharAt + 1)
               resultSoFar    == Append(result, SimpleEntry(property))
           IN parse(remainingLines, resultSoFar, depth + 1)
      ELSE LET bracketOpenAt  == nextCharAt
               bracketCloseAt == indexOf(text, << "}" >>)
               rule           == trim(slice(text, 0, bracketOpenAt))
               ruleBody       == slice(text, bracketOpenAt + 1, bracketCloseAt)
               properties     == parse(ruleBody, << >>, depth + 1)
               remainingLines == sliceFrom(text, bracketCloseAt + 1)
               resultSoFar    == Append(result, NestedEntry(rule, properties.value))
           IN IF properties.thrown THEN RangeError
              ELSE parse(remainingLines, resultSoFar, depth + 1)

(***************************** COMPILE *************************************)

placeholder ==
    << "Z", "T", "c", "5", "O", "G", "Y", "2", "M", "D", "U", "t", "M", "T", "F", "k",
       "N", "y", "0", "0", "O", "D", "J", "m", "L", "W", "I", "4", "N", "m", "M", "t",
       "Z", "j", "E", "x", "Y", "z", "A", "5", "M", "z", "d", "i", "Z", "j", "c", "5" >>

RECURSIVE join(_, _)
\* array.join(separator)
join(array, separator) ==
    IF array = << >> THEN << >>
    ELSE IF Len(array) = 1 THEN array[1]
    ELSE array[1] \o separator \o join(Tail(array), separator)

isNested(tuple) == tuple.nested

isSimple(propertyTuple) == isNested(propertyTuple) = FALSE

isCustomProperty(property) == startsWith(property.tuple[1], << "-", "-" >>)

isNormalProperty(property) == isCustomProperty(property) = FALSE

isAtRule(tuple) == startsWith(tuple.tuple[1], << "@" >>)

isPseudoClassRule(tuple) == startsWith(tuple.tuple[1], << ":" >>)

\* properties.map(tuple => tuple.join(': ')).join('; ')
stringifyProperties(properties) ==
    join([ k \in 1..Len(properties) |-> join(properties[k].tuple, << ":", " " >>) ],
         << ";", " " >>)

CompiledCSS(classes, customProperties, rules) ==
    [classes |-> classes, customProperties |-> customProperties, rules |-> rules]

Rule(ruleBody, selector) == [ruleBody |-> ruleBody, selector |-> selector]

hwPrefix == << "h", "w", "_" >>

\* A faulty simple rule, whose body is made of all the simple properties, the
\* custom ones too.
simpleRuleOfAll(simpleProperties) ==
    IF Len(simpleProperties) > 0
    THEN LET customProperties == SelectSeq(simpleProperties, isCustomProperty)
             ruleBody == placeholder \o << " ", "{", " " >>
                           \o stringifyProperties(simpleProperties) \o << " ", "}" >>
             hwClass  == hwPrefix \o hash(ruleBody)
         IN CompiledCSS(<< hwClass >>, customProperties,
                        << Rule(ruleBody, << "." >> \o hwClass) >>)
    ELSE CompiledCSS(<< >>, << >>, << >>)

simpleRule(simpleProperties) ==
    IF Len(simpleProperties) > 0
    THEN LET customProperties == SelectSeq(simpleProperties, isCustomProperty)
             normalProperties == SelectSeq(simpleProperties, isNormalProperty)
             ruleBody == placeholder \o << " ", "{", " " >>
                           \o stringifyProperties(normalProperties) \o << " ", "}" >>
             hwClass  == hwPrefix \o hash(ruleBody)
         IN CompiledCSS(<< hwClass >>, customProperties,
                        << Rule(ruleBody, << "." >> \o hwClass) >>)
    ELSE CompiledCSS(<< >>, << >>, << >>)

\* A faulty pseudo-class rule, whose class is hashed from the rule body alone.
pseudoRuleOfBody(entry) ==
    LET pseudoClass == entry.tuple[1]
        ruleBody == placeholder \o << " ", "{", " " >>
                      \o stringifyProperties(entry.properties) \o << " ", "}" >>
        hwClass  == hwPrefix \o hash(hash(ruleBody))
    IN CompiledCSS(<< hwClass >>, << >>,
                   << Rule(ruleBody, << "." >> \o hwClass \o pseudoClass) >>)

pseudoRule(entry) ==
    LET pseudoClass == entry.tuple[1]
        ruleBody == placeholder \o << " ", "{", " " >>
                      \o stringifyProperties(entry.properties) \o << " ", "}" >>
        hwClass  == hwPrefix \o hash(pseudoClass \o hash(ruleBody))
    IN CompiledCSS(<< hwClass >>, << >>,
                   << Rule(ruleBody, << "." >> \o hwClass \o pseudoClass) >>)

atRule(entry) ==
    LET atQuery  == entry.tuple[1]
        ruleBody == atQuery \o << " ", "{", " " >> \o placeholder \o << " ", "{", " " >>
                      \o stringifyProperties(entry.properties)
                      \o << " ", "}", " ", "}" >>
        hwClass  == hwPrefix \o hash(atQuery \o hash(ruleBody))
    IN CompiledCSS(<< hwClass >>, << >>, << Rule(ruleBody, << "." >> \o hwClass) >>)

RECURSIVE accumulate(_)
\* compiled.reduce((accumulated, current) => ...) over a non-empty array
accumulate(compiled) ==
    IF Len(compiled) = 1 THEN compiled[1]
    ELSE LET accumulated == accumulate(SubSeq(compiled, 1, Len(compiled) - 1))
             current     == compiled[Len(compiled)]
         IN CompiledCSS(accumulated.classes \o current.classes,
                        accumulated.customProperties \o current.customProperties,
                        accumulated.rules \o current.rules)

compile(properties) ==
    LET simpleProperties == SelectSeq(properties, isSimple)
        nestedRules      == SelectSeq(properties, isNested)
        atQueryRules     == SelectSeq(nestedRules, isAtRule)
        pseudoClassRules == SelectSeq(nestedRules, isPseudoClassRule)
        pseudoRules == [ k \in 1..Len(pseudoClassRules) |-> pseudoRule(pseudoClassRules[k]) ]
        atRules     == [ k \in 1..Len(atQueryRules) |-> atRule(atQueryRules[k]) ]
    IN accumulate(<< simpleRule(simpleProperties) >> \o pseudoRules \o atRules)

(**************************** STYLESHEET ***********************************)

\* The module-level Map<string, Set<string>>: its entries in insertion order, each
\* Set as its members in insertion order.
MapEntry(ruleBody, selectors) == [ruleBody |-> ruleBody, selectors |-> selectors]

\* A faulty set.add: an array push, which keeps a member twice.
setAddAgain(set, member) == Append(set, member)

\* set.add(member)
setAdd(set, member) ==
    IF \E k \in 1..Len(set) : set[k] = member THEN set ELSE Append(set, member)

\* A faulty addRule: stylesheet.set(ruleBody, new Set([selector])) also when the
\* rule body is there, which drops the selectors it had.
addRuleReplacing(stylesheet, ruleBody, selector) ==
    LET found == { k \in 1..Len(stylesheet) : stylesheet[k].ruleBody = ruleBody }
    IN IF found = {}
       THEN Append(stylesheet, MapEntry(ruleBody, << selector >>))
       ELSE [ k \in 1..Len(stylesheet) |->
                IF k \in found THEN MapEntry(ruleBody, << selector >>)
                ELSE stylesheet[k] ]

addRule(stylesheet, ruleBody, selector) ==
    LET found == { k \in 1..Len(stylesheet) : stylesheet[k].ruleBody = ruleBody }
    IN IF found = {}
       THEN Append(stylesheet, MapEntry(ruleBody, << selector >>))
       ELSE [ k \in 1..Len(stylesheet) |->
                IF k \in found
                THEN MapEntry(ruleBody, setAdd(stylesheet[k].selectors, selector))
                ELSE stylesheet[k] ]

RECURSIVE addRules(_, _)
\* rules.forEach(({ ruleBody, selector }) => addRule(stylesheet, ruleBody, selector))
addRules(stylesheet, rules) ==
    IF rules = << >> THEN stylesheet
    ELSE addRules(addRule(stylesheet, Head(rules).ruleBody, Head(rules).selector),
                  Tail(rules))

\* A faulty render that leaves out stylesheet.clear().
clearNothing(stylesheet) == stylesheet

\* stylesheet.clear()
clear(stylesheet) == << >>

RECURSIVE getSubstitution(_, _, _, _)
\* The replacement text of String.prototype.replace for a string pattern: in the
\* replacement, "$$" stands for "$", "$&" for the matched text and "$'" for the text
\* after the match; any other "$" stands for itself (there are no capture groups).
getSubstitution(matched, before, after, replacement) ==
    LET at == indexOf(replacement, << "$" >>) IN
    IF at = -1 \/ at + 1 >= Len(replacement) THEN replacement
    ELSE LET head == SubSeq(replacement, 1, at)
             next == replacement[at + 2]
             rest == sliceFrom(replacement, at + 2)
         IN IF next = "$"
            THEN head \o << "$" >> \o getSubstitution(matched, before, after, rest)
            ELSE IF next = "&"
            THEN head \o matched \o getSubstitution(matched, before, after, rest)
            ELSE IF next = "'"
            THEN head \o after \o getSubstitution(matched, before, after, rest)
            ELSE head \o << "$" >>
                   \o getSubstitution(matched, before, after,
                                      sliceFrom(replacement, at + 1))

\* text.replace(pattern, replacement) for a string pattern: its first occurrence
\* only, replaced by the substitution of replacement.
replace(text, pattern, replacement) ==
    LET at == indexOf(text, pattern) IN
    IF at = -1 THEN text
    ELSE LET before == SubSeq(text, 1, at)
             after  == sliceFrom(text, at + Len(pattern))
         IN before \o getSubstitution(pattern, before, after, replacement) \o after

stringifyStylesheet(stylesheet) ==
    LET rulesStrings ==
          [ k \in 1..Len(stylesheet) |->
              LET selectorsString == join(stylesheet[k].selectors, << ",", " " >>)
              IN replace(stylesheet[k].ruleBody, placeholder, selectorsString) ]
    IN join(rulesStrings, << "\n" >>)

(******************************* HOOK **************************************)

\* A vnode's props: class (the empty string when absent: both are falsy) and
\* style, which is a string, undefined or a value of another type.
VNode(class, style) == [class |-> class, style |-> style]

StringStyle(text) == [type |-> "string", value |-> text]

UndefinedStyle == [type |-> "undefined", value |-> << >>]

ObjectStyle == [type |-> "object", value |-> << >>]

\* The style strings given to hook.

colorRed ==
    << "c", "o", "l", "o", "r", ":", " ", "r", "e", "d" >>

hoverRed ==
    << ":", "h", "o", "v", "e", "r", " ", "{", " ", "c", "o", "l", "o", "r", ":", " ",
       "r", "e", "d", " ", "}" >>

mediaRed ==
    << "@", "m", "e", "d", "i", "a", " ", "p", "r", "i", "n", "t", " ", "{", " ", "c",
       "o", "l", "o", "r", ":", " ", "r", "e", "d", " ", "}" >>

redAndHover ==
    << "c", "o", "l", "o", "r", ":", " ", "r", "e", "d", ";", " ", ":", "h", "o", "v",
       "e", "r", " ", "{", " ", "c", "o", "l", "o", "r", ":", " ", "r", "e", "d", " ",
       "}" >>

dollarRed ==
    << ":", "$", "&", " ", "{", " ", "c", "o", "l", "o", "r", ":", " ", "r", "e", "d",
       " ", "}" >>

unclosedRed ==
    << "d", "i", "v", " ", "{", " ", "c", "o", "l", "o", "r", ":", " ", "r", "e", "d" >>

colorRedCustom ==
    << "c", "o", "l", "o", "r", ":", " ", "r", "e", "d", ";", " ", "-", "-", "x", ":",
       " ", "1" >>

Styles ==
    { colorRed, colorRedCustom, hoverRed, mediaRed, redAndHover, dollarRed,
      unclosedRed }

\* The vnodes given to hook.
VNodes ==
    { VNode(<< >>, StringStyle(style)) : style \in Styles }
      \cup { VNode(<< "b", "t", "n" >>, StringStyle(colorRed)),
             VNode(<< >>, UndefinedStyle),
             VNode(<< "b", "t", "n" >>, ObjectStyle) }

RECURSIVE tabulate(_, _)
\* The function that F is on S, with every value computed.
tabulate(F(_), S) ==
    IF S = {} THEN << >>
    ELSE LET x == CHOOSE x \in S : TRUE IN (x :> F(x)) @@ tabulate(F, S \ {x})

\* parse(style), the call hook makes
parseStyle(style) == parse(style, << >>, 1)

\* compile(parse(style)) where parse returns
compileStyle(style) ==
    LET parsed == parseStyle(style)
    IN IF parsed.thrown THEN CompiledCSS(<< >>, << >>, << >>) ELSE compile(parsed.value)

\* parse and compile are pure functions of the style string: their values on the
\* style strings of the model, each computed once.
parsedStyles == tabulate(parseStyle, Styles)

compiledStyles == tabulate(compileStyle, Styles)

applyClass(vnode, hwClass) ==
    IF vnode.class # << >>
    THEN [vnode EXCEPT !.class = vnode.class \o << " " >> \o hwClass]
    ELSE [vnode EXCEPT !.class = hwClass]

RECURSIVE applyClasses(_, _)
\* classes.forEach(_class => applyClass(vnode, _class))
applyClasses(vnode, classes) ==
    IF classes = << >> THEN vnode
    ELSE applyClasses(applyClass(vnode, Head(classes)), Tail(classes))

\* What hook(vnode) does to the vnode and the stylesheet; rules and classes are
\* what it passed to addRule and applyClass.
HookResult(thrown, vnode, stylesheet, classes, rules) ==
    [thrown |-> thrown, vnode |-> vnode, stylesheet |-> stylesheet,
     classes |-> classes, rules |-> rules]

hook(vnode, stylesheet) ==
    IF vnode.style.type = "undefined"
    THEN HookResult(FALSE, vnode, stylesheet, << >>, << >>)
    ELSE IF vnode.style.type # "string"
    THEN HookResult(FALSE, vnode, stylesheet, << >>, << >>)
    ELSE LET parsed == parsedStyles[vnode.style.value] IN
         IF parsed.thrown
         THEN HookResult(TRUE, vnode, stylesheet, << >>, << >>)
         ELSE LET compiled == compiledStyles[vnode.style.value]
                  classed  == applyClasses(vnode, compiled.classes)
                  styled   ==
                    IF Len(compiled.customProperties) > 0
                    THEN [classed EXCEPT !.style =
                            StringStyle(stringifyProperties(compiled.customProperties))]
                    ELSE [classed EXCEPT !.style = UndefinedStyle]
              IN HookResult(FALSE, styled, addRules(stylesheet, compiled.rules),
                            compiled.classes, compiled.rules)

(***************************** THE STATE ***********************************)

VARIABLES
    stylesheet,   \* the module-level Map
    nodes,        \* per render pass, the vnodes hook has returned for its page
    applied,      \* per render pass, the classes hook applied to its vnodes
    cssText,      \* per render pass, what its render returned, once it has
    calls,        \* the hook calls since the stylesheet was last cleared
    flushed,      \* per render pass, the value of calls when its render ran
    outcome,      \* what the last operation was
    pText,        \* parse, call by call: the text first given
    frames,       \*   the call stack, innermost call last
    retval,       \*   the value a call has just returned to the frame below it
    pThrown,      \*   whether the stack was exhausted (RangeError)
    emitted,      \*   the last segment split and the tuple it gave
    hData,        \* hash, character by character: the data
    hIndex,       \*   the number of characters reduced so far
    hashInt,      \*   the accumulator
    hToken,       \*   the token returned, once it is
    cProps,       \* compile: the ParsedCSS given
    cOut,         \*   the CompiledCSS returned, once it is
    cSheet        \*   a Map its rules were added to

mainVars    == << stylesheet, nodes, applied, cssText, calls, flushed, outcome >>
parseVars   == << pText, frames, retval, pThrown, emitted >>
hashVars    == << hData, hIndex, hashInt, hToken >>
compileVars == << cProps, cOut, cSheet >>
vars        == << mainVars, parseVars, hashVars, compileVars >>

None == [set |-> FALSE, value |-> << >>]

Some(value) == [set |-> TRUE, value |-> value]

\* All sequences over S of length at most n.
SeqUpTo(S, n) == UNION { [1..k -> S] : k \in 0..n }

MainIdle ==
    /\ stylesheet = << >>
    /\ nodes = << >>
    /\ applied = << >>
    /\ cssText = << >>
    /\ calls = << >>
    /\ flushed = << >>
    /\ outcome = "idle"

ParseIdle ==
    /\ pText = << >>
    /\ frames = << >>
    /\ retval = None
    /\ pThrown = FALSE
    /\ emitted = None

HashIdle ==
    /\ hData = << >>
    /\ hIndex = 0
    /\ hashInt = hashSeed
    /\ hToken = None

CompileIdle ==
    /\ cProps = << >>
    /\ cOut = None
    /\ cSheet = << >>

(******************** HOOK AND RENDER, PASS BY PASS ************************)

\* The render passes (page requests) whose vnodes the process creates.
Passes == {1, 2}

\* The number of hook calls of a run.
MaxCalls == 2

\* One hook call that returned: the pass of its vnode, the vnode given and the one
\* returned, the classes it applied and the rules it added.
Call(pass, given, result) ==
    [pass |-> pass, given |-> given, vnode |-> result.vnode,
     classes |-> result.classes, rules |-> result.rules]

Init ==
    /\ stylesheet = << >>
    /\ nodes = [p \in Passes |-> << >>]
    /\ applied = [p \in Passes |-> {}]
    /\ cssText = [p \in Passes |-> None]
    /\ calls = << >>
    /\ flushed = [p \in Passes |-> << >>]
    /\ outcome = "idle"
    /\ ParseIdle /\ HashIdle /\ CompileIdle

RECURSIVE Sum(_, _)
Sum(f, S) == IF S = {} THEN 0 ELSE LET x == CHOOSE x \in S : TRUE IN f[x] + Sum(f, S \ {x})

\* The hook calls that returned, over all passes.
TotalCalls == Sum([p \in Passes |-> Len(nodes[p])], Passes)

\* createVNode calls hook on a vnode of pass p's page. When hook throws (parse
\* exhausted the stack) nothing of the call stays.
Hook(p, vnode) ==
    /\ ~cssText[p].set
    /\ TotalCalls < MaxCalls
    /\ LET result == hook(vnode, stylesheet) IN
       IF result.thrown
       THEN /\ outcome' = "threw"
            /\ UNCHANGED << stylesheet, nodes, applied, calls >>
       ELSE /\ stylesheet' = result.stylesheet
            /\ nodes' = [nodes EXCEPT ![p] = Append(@, result.vnode)]
            /\ applied' = [applied EXCEPT ![p] =
                             @ \cup { result.classes[k] : k \in 1..Len(result.classes) }]
            /\ calls' = Append(calls, Call(p, vnode, result))
            /\ outcome' = "hook"
    /\ UNCHANGED << cssText, flushed, parseVars, hashVars, compileVars >>

\* The plugin's render for pass p, after context.render() has returned.
Render(p) ==
    /\ ~cssText[p].set
    /\ cssText' = [cssText EXCEPT ![p] = Some(stringifyStylesheet(stylesheet))]
    /\ stylesheet' = clear(stylesheet)
    /\ flushed' = [flushed EXCEPT ![p] = calls]
    /\ calls' = << >>
    /\ outcome' = "render"
    /\ UNCHANGED << nodes, applied, parseVars, hashVars, compileVars >>

Next ==
    \/ \E p \in Passes, vnode \in VNodes : Hook(p, vnode)
    \/ \E p \in Passes : Render(p)

Spec == Init /\ [][Next]_vars

(************************* PARSE, CALL BY CALL *****************************)

\* The characters of the texts given to parse, and the length of the longest.
ParseChars == {"a", ":", ";", "{", "}", " "}

MaxText == 4

\* One call of parse on the stack: its arguments and where it stands: at its
\* entry, waiting for parse(ruleBody) (the properties of a nested rule), or
\* waiting for the call whose value it returns (the rest of the text).
Frame(text, result, at) == [text |-> text, result |-> result, at |-> at]

Top == frames[Len(frames)]

Pushed(at, frame) == Append([frames EXCEPT ![Len(frames)].at = at], frame)

Popped == SubSeq(frames, 1, Len(frames) - 1)

InitParse ==
    /\ pText \in SeqUpTo(ParseChars, MaxText)
    /\ frames = << Frame(pText, << >>, "entry") >>
    /\ retval = None
    /\ pThrown = FALSE
    /\ emitted = None
    /\ MainIdle /\ HashIdle /\ CompileIdle

AtEntry == frames # << >> /\ ~retval.set /\ Top.at = "entry"

\* The call does not fit on the stack: RangeError unwinds every call.
ParseOverflow ==
    /\ AtEntry
    /\ Len(frames) > MaxStack
    /\ frames' = << >>
    /\ pThrown' = TRUE
    /\ UNCHANGED << pText, retval, emitted, mainVars, hashVars, compileVars >>

\* if (trim(text) === '') return result
ParseEmpty ==
    /\ AtEntry
    /\ Len(frames) <= MaxStack
    /\ trim(Top.text) = << >>
    /\ frames' = Popped
    /\ retval' = Some(Top.result)
    /\ UNCHANGED << pText, pThrown, emitted, mainVars, hashVars, compileVars >>

\* if (nextCharAt === -1): the last declaration, without a terminator
ParseLast ==
    /\ AtEntry
    /\ Len(frames) <= MaxStack
    /\ trim(Top.text) # << >>
    /\ search(Top.text) = -1
    /\ LET property == mapTrim(split(Top.text, ":")) IN
         /\ emitted' = Some([line |-> Top.text, property |-> property])
         /\ retval' = Some(Append(Top.result, SimpleEntry(property)))
    /\ frames' = Popped
    /\ UNCHANGED << pText, pThrown, mainVars, hashVars, compileVars >>

\* if (nextChar === ';'): one declaration, then the remaining lines
ParseSemicolon ==
    /\ AtEntry
    /\ Len(frames) <= MaxStack
    /\ trim(Top.text) # << >>
    /\ search(Top.text) # -1
    /\ Top.text[search(Top.text) + 1] = ";"
    /\ LET nextCharAt     == search(Top.text)
           line           == slice(Top.text, 0, nextCharAt)
           property       == mapTrim(split(line, ":"))
           remainingLines == sliceFrom(Top.text, nextCharAt + 1)
           resultSoFar    == Append(Top.result, SimpleEntry(property))
       IN /\ emitted' = Some([line |-> line, property |-> property])
          /\ frames' = Pushed("sibling", Frame(remainingLines, resultSoFar, "entry"))
    /\ UNCHANGED << pText, retval, pThrown, mainVars, hashVars, compileVars >>

\* if (nextChar === '{'): first the call parse(ruleBody)
ParseBracket ==
    /\ AtEntry
    /\ Len(frames) <= MaxStack
    /\ trim(Top.text) # << >>
    /\ search(Top.text) # -1
    /\ Top.text[search(Top.text) + 1] = "{"
    /\ LET bracketOpenAt  == search(Top.text)
           bracketCloseAt == indexOf(Top.text, << "}" >>)
           ruleBody       == slice(Top.text, bracketOpenAt + 1, bracketCloseAt)
       IN frames' = Pushed("properties", Frame(ruleBody, << >>, "entry"))
    /\ UNCHANGED << pText, retval, pThrown, emitted, mainVars, hashVars, compileVars >>

\* parse(ruleBody) has returned the properties: the call on the remaining lines
ParseRemaining ==
    /\ frames # << >>
    /\ retval.set
    /\ Top.at = "properties"
    /\ LET bracketOpenAt  == search(Top.text)
           bracketCloseAt == indexOf(Top.text, << "}" >>)
           rule           == trim(slice(Top.text, 0, bracketOpenAt))
           properties     == retval.value
           remainingLines == sliceFrom(Top.text, bracketCloseAt + 1)
           resultSoFar    == Append(Top.result, NestedEntry(rule, properties))
       IN frames' = Pushed("sibling", Frame(remainingLines, resultSoFar, "entry"))
    /\ retval' = None
    /\ UNCHANGED << pText, pThrown, emitted, mainVars, hashVars, compileVars >>

\* return parse(remainingLines, resultSoFar): the value of the call is returned
ParseReturn ==
    /\ frames # << >>
    /\ retval.set
    /\ Top.at = "sibling"
    /\ frames' = Popped
    /\ UNCHANGED << pText, retval, pThrown, emitted, mainVars, hashVars, compileVars >>

NextParse ==
    \/ ParseOverflow
    \/ ParseEmpty
    \/ ParseLast
    \/ ParseSemicolon
    \/ ParseBracket
    \/ ParseRemaining
    \/ ParseReturn

SpecParse == InitParse /\ [][NextParse]_vars

\* The outermost call has returned or thrown.
ParseEnded == frames = << >>

\* The calls, one at a time, end as parse(text, []) does.
ParseAgrees ==
    ParseEnded =>
        parse(pText, << >>, 1) = IF pThrown THEN RangeError ELSE Returned(retval.value)

(*********************** HASH, CHARACTER BY CHARACTER **********************)

\* The characters of the data given to hash, and the length of the longest.
HashChars == {" ", "5", "Z", "~"}

MaxData == 5

InitHash ==
    /\ hData \in SeqUpTo(HashChars, MaxData)
    /\ hIndex = 0
    /\ hashInt = hashSeed
    /\ hToken = None
    /\ MainIdle /\ ParseIdle /\ CompileIdle

\* One step of the reduce: the next character of data.
HashChar ==
    /\ hIndex < Len(hData)
    /\ hashInt' = hashAccumulate(hashInt, hData[hIndex + 1])
    /\ hIndex' = hIndex + 1
    /\ UNCHANGED << hData, hToken, mainVars, parseVars, compileVars >>

\* The reduce is over: hash returns the token.
HashReturn ==
    /\ hIndex = Len(hData)
    /\ ~hToken.set
    /\ hToken' = Some(hash(hData))
    /\ UNCHANGED << hData, hIndex, hashInt, mainVars, parseVars, compileVars >>

NextHash == HashChar \/ HashReturn

SpecHash == InitHash /\ [][NextHash]_vars

(********************* COMPILE, ON A PARSED STYLE **************************)

\* The number of entries of the longest ParsedCSS given to compile.
MaxEntries == 2

declColorRed == << << "c", "o", "l", "o", "r" >>, << "r", "e", "d" >> >>

declCustomX == << << "-", "-", "x" >>, << "1" >> >>

declCustomY == << << "-", "-", "y" >>, << "2" >> >>

\* The declarations, as parse gives them.
Declarations ==
    { SimpleEntry(declColorRed), SimpleEntry(declCustomX), SimpleEntry(declCustomY) }

\* The selector fragments of the nested rules: two pseudo-classes, an at-rule and
\* one that is neither.
Fragments ==
    { << ":", "h", "o", "v", "e", "r" >>,
      << ":", "f", "o", "c", "u", "s" >>,
      << "@", "m", "e", "d", "i", "a", " ", "p", "r", "i", "n", "t" >>,
      << "d", "i", "v" >> }

\* The declaration lists of the nested rules.
DeclarationLists ==
    { << >>,
      << SimpleEntry(declColorRed) >>,
      << SimpleEntry(declColorRed), SimpleEntry(declCustomX) >> }

Entries ==
    Declarations
      \cup { NestedEntry(fragment, list) : fragment \in Fragments, list \in DeclarationLists }

InitCompile ==
    /\ cProps \in SeqUpTo(Entries, MaxEntries)
    /\ cOut = None
    /\ cSheet = << >>
    /\ MainIdle /\ ParseIdle /\ HashIdle

\* What hook does with a parsed style: compile, then addRule for each rule (here to
\* a Map of its own, empty before).
CompileAndAdd ==
    /\ ~cOut.set
    /\ LET compiled == compile(cProps) IN
         /\ cOut' = Some(compiled)
         /\ cSheet' = addRules(cSheet, compiled.rules)
    /\ UNCHANGED << cProps, mainVars, parseVars, hashVars >>

NextCompile == CompileAndAdd

SpecCompile == InitCompile /\ [][NextCompile]_vars

(************************** PROPERTIES: HELPERS ****************************)

\* The k-th smallest member of a set of numbers.
Nth(S, k) == CHOOSE i \in S : Cardinality({ j \in S : j < i }) = k - 1

\* The members of a set of indices of array, as an array in index order.
Picked(array, indices) ==
    [ k \in 1..Cardinality(indices) |-> array[Nth(indices, k)] ]

\* array without the later occurrences of a value it holds already.
FirstSeen(array) ==
    Picked(array, { i \in 1..Len(array) : \A j \in 1..(i - 1) : array[j] # array[i] })

\* Whether text holds pattern.
Contains(text, pattern) == indexOf(text, pattern) # -1

\* The rules hook gave to addRule since the stylesheet was last cleared, in order.
RulesOf(log) == Concat([ k \in 1..Len(log) |-> log[k].rules ])

\* The (rule body, selector) pairs a stylesheet holds.
PairsOf(sheet) ==
    UNION { { Rule(sheet[k].ruleBody, sheet[k].selectors[n]) :
                n \in 1..Len(sheet[k].selectors) } : k \in 1..Len(sheet) }

Members(array) == { array[k] : k \in 1..Len(array) }

(********************** PROPERTIES OF HOOK AND RENDER **********************)

\* C1: after any addRule calls since the last clear, the stylesheet has exactly one
\* entry per distinct rule body added, in first-seen order, and the entry's
\* selectors are exactly the selectors added with that rule body, each once, in
\* first-seen order (so adding a pair that is there changes nothing).
C1_OneEntryPerRuleBody ==
    LET rules  == RulesOf(calls)
        bodies == FirstSeen([ k \in 1..Len(rules) |-> rules[k].ruleBody ])
        selectorsOf(body) ==
            LET with == { k \in 1..Len(rules) : rules[k].ruleBody = body }
            IN FirstSeen(Picked([ k \in 1..Len(rules) |-> rules[k].selector ], with))
    IN /\ Len(stylesheet) = Len(bodies)
       /\ \A k \in 1..Len(stylesheet) :
            /\ stylesheet[k].ruleBody = bodies[k]
            /\ stylesheet[k].selectors = selectorsOf(bodies[k])

\* A rule body was added with two selectors, and one pair was added twice.
C1_Witness ==
    /\ \E k \in 1..Len(stylesheet) : Len(stylesheet[k].selectors) = 2
    /\ Len(RulesOf(calls)) > Cardinality(Members(RulesOf(calls)))

\* C2: the stylesheet is empty right after every render, it holds nothing but the
\* rules added by the hook calls since the last render, and the text a render
\* returned is the serialization of exactly the rules added by the hook calls
\* between the render before it and itself.
C2_RenderDrains ==
    /\ outcome = "render" => stylesheet = << >>
    /\ PairsOf(stylesheet) = Members(RulesOf(calls))
    /\ \A p \in Passes :
         cssText[p].set =>
            cssText[p].value = stringifyStylesheet(addRules(<< >>, RulesOf(flushed[p])))

\* A second render has just run, and both renders had rules to serialize.
C2_Witness ==
    /\ outcome = "render"
    /\ \A p \in Passes : cssText[p].set /\ flushed[p] # << >> /\ cssText[p].value # << >>

\* Two hook calls since the last clear, both on the same style string, which holds
\* simple declarations only.
SameSimpleStyleTwice ==
    /\ Len(calls) = 2
    /\ calls[1].given.style = calls[2].given.style
    /\ calls[1].given.style.type = "string"
    /\ \A entry \in Members(parsedStyles[calls[1].given.style.value].value) :
         isSimple(entry)

\* C3 as stated: the same simple declarations compiled twice give the same class
\* both times, and their rules added to one stylesheet give a single entry whose
\* selector set has two members.
C3_TwoMembers ==
    SameSimpleStyleTwice =>
        /\ calls[1].classes = calls[2].classes
        /\ Len(stylesheet) = 1
        /\ Len(stylesheet[1].selectors) = 2

\* C3, amended: ... a single entry whose selector set has one member, the selector
\* of the one class.
C3_OneMember ==
    SameSimpleStyleTwice =>
        /\ calls[1].classes = calls[2].classes
        /\ Len(calls[1].classes) = 1
        /\ Len(stylesheet) = 1
        /\ stylesheet[1].selectors = << << "." >> \o calls[1].classes[1] >>

C3_Witness == SameSimpleStyleTwice

\* text with the first occurrence of pattern replaced by the characters of
\* replacement, taken as they are.
ReplacedLiterally(text, pattern, replacement) ==
    LET at == indexOf(text, pattern)
    IN IF at = -1 THEN text
       ELSE SubSeq(text, 1, at) \o replacement \o sliceFrom(text, at + Len(pattern))

\* C8: stringifyStylesheet gives one rule text per entry, in order, joined by
\* newlines, each the rule body with the placeholder replaced by the entry's
\* selectors joined with ', '; the text never holds the placeholder, and the text
\* of an empty stylesheet is empty.
C8_PlaceholderReplaced ==
    LET text == stringifyStylesheet(stylesheet)
        ruleText(k) ==
            ReplacedLiterally(stylesheet[k].ruleBody, placeholder,
                              join(stylesheet[k].selectors, << ",", " " >>))
    IN /\ text = join([ k \in 1..Len(stylesheet) |-> ruleText(k) ], << "\n" >>)
       /\ ~Contains(text, placeholder)
       /\ stylesheet = << >> => text = << >>

\* C9: the text rendered for a pass names every class hook applied to that pass's
\* vnodes, and no class applied to another pass's vnodes only.
C9_NoCrossPassBleed ==
    \A p \in Passes :
        cssText[p].set =>
            /\ \A class \in applied[p] :
                 Contains(cssText[p].value, << "." >> \o class)
            /\ \A q \in Passes \ {p} : \A class \in applied[q] \ applied[p] :
                 ~Contains(cssText[p].value, << "." >> \o class)

(************************** PROPERTIES OF PARSE ****************************)

\* C4: a declaration parse emits for a segment that holds a ':' is a pair: the
\* trimmed text before the segment's first ':' and the trimmed text after it (a
\* value that holds a ':' stays in one piece), for a segment ended by ';' and for
\* the last one alike.
C4_SplitOnce ==
    (emitted.set /\ Contains(emitted.value.line, << ":" >>)) =>
        LET line  == emitted.value.line
            colon == indexOf(line, << ":" >>)
        IN emitted.value.property
             = << trim(slice(line, 0, colon)), trim(sliceFrom(line, colon + 1)) >>

\* A text with a '{' and no '}' anywhere.
Unclosed(text) == Contains(text, << "{" >>) /\ ~Contains(text, << "}" >>)

\* C10: on a text with a '{' and no '}', every recursive call of parse works on a
\* strictly shorter text than its caller's, and parse ends in a failure, without
\* a parsed result.
C10_UnclosedFails ==
    [][ Unclosed(pText) =>
          /\ Len(frames') > Len(frames)
                => Len(frames'[Len(frames')].text) < Len(Top.text)
          /\ frames' = << >> => pThrown' /\ ~retval'.set ]_vars

(*************************** PROPERTIES OF HASH ****************************)

\* The reference: the accumulator as six digits of base 64, lowest first (the
\* sixth holds the two highest bits of the 32), from 313, times 311 plus the
\* character's code for each character in order, modulo 2^32.
RECURSIVE RefTimes311Plus(_, _, _)
RefTimes311Plus(digits, carry, k) ==
    IF k > Len(digits) THEN << >>
    ELSE LET sum == digits[k] * 311 + carry
         IN << sum % (IF k = Len(digits) THEN 4 ELSE 64) >>
              \o RefTimes311Plus(digits, sum \div 64, k + 1)

RECURSIVE RefAccumulator(_)
RefAccumulator(data) ==
    IF data = << >> THEN << 313 % 64, 313 \div 64, 0, 0, 0, 0 >>
    ELSE RefTimes311Plus(RefAccumulator(SubSeq(data, 1, Len(data) - 1)),
                         charCodeAt(data[Len(data)]), 1)

\* The two 16-bit halves of the number the six digits stand for.
RefHalves(digits) ==
    Uint32((digits[3] \div 16) + 4 * digits[4] + 256 * digits[5] + 16384 * digits[6],
           digits[1] + 64 * digits[2] + 4096 * (digits[3] % 16))

RefToken(digits) == [ k \in 1..5 |-> alphabet[digits[k] + 1] ]

\* C6: at every step the accumulator of hash is the reference's, a number in
\* 0 .. 2^32 - 1; every index hash looks up in the alphabet is in 0 .. 63; and the
\* token is the reference's: the symbols at the accumulator's 6-bit fields at bit
\* 0, 6, 12, 18 and 24, lowest first, five characters.
C6_HashIsReference ==
    /\ hashInt.hi \in 0..(Half - 1)
    /\ hashInt.lo \in 0..(Half - 1)
    /\ hashInt = RefHalves(RefAccumulator(SubSeq(hData, 1, hIndex)))
    /\ \A k \in 1..Len(masks) :
         shiftRight(bitAnd(hashInt, masks[k]), (k - 1) * 6) \in 0..63
    /\ hToken.set =>
         /\ hToken.value = RefToken(RefAccumulator(hData))
         /\ Len(hToken.value) = 5
         /\ \A k \in 1..5 : hToken.value[k] \in Members(alphabet)

\* hash has returned, and the accumulator had gone round 2^32 and ends with its
\* highest bit set.
C6_Witness ==
    /\ hToken.set
    /\ Len(hData) >= 3
    /\ hashInt.hi >= Half \div 2

(************************** PROPERTIES OF COMPILE **************************)

SimpleIndices == { i \in 1..Len(cProps) : ~cProps[i].nested }

CustomIndices ==
    { i \in SimpleIndices :
        /\ Len(cProps[i].tuple[1]) >= 2
        /\ cProps[i].tuple[1][1] = "-"
        /\ cProps[i].tuple[1][2] = "-" }

\* "name: value" for each declaration, joined by "; "
Declared(declarations) ==
    join([ k \in 1..Len(declarations) |->
             declarations[k].tuple[1] \o << ":", " " >> \o declarations[k].tuple[2] ],
         << ";", " " >>)

\* C7: the customProperties compile returns are exactly the simple declarations
\* whose name starts with '--', in source order (none from a nested rule, none
\* from a pseudo-class or at-rule group); and with a simple declaration, the
\* simple group's rule body lists exactly the other simple declarations and no
\* custom property.
C7_CustomPropertiesApart ==
    cOut.set =>
        /\ cOut.value.customProperties = Picked(cProps, CustomIndices)
        /\ SimpleIndices # {} =>
             /\ cOut.value.rules[1].ruleBody
                  = placeholder \o << " ", "{", " " >>
                      \o Declared(Picked(cProps, SimpleIndices \ CustomIndices))
                      \o << " ", "}" >>
             /\ \A i \in CustomIndices :
                  ~Contains(cOut.value.rules[1].ruleBody, cProps[i].tuple[1])

\* compile has returned one custom property, simple in the source, and a nested
\* rule of the source holds a custom property too.
C7_Witness ==
    /\ cOut.set
    /\ Len(cOut.value.customProperties) = 1
    /\ \E i \in 1..Len(cProps) :
         /\ cProps[i].nested
         /\ \E k \in 1..Len(cProps[i].properties) : isCustomProperty(cProps[i].properties[k])

\* The ParsedCSS is the rule (":hover", D) and the rule (":focus", D), one D.
HoverAndFocus ==
    /\ Len(cProps) = 2
    /\ cProps[1].nested /\ cProps[2].nested
    /\ cProps[1].tuple[1] = << ":", "h", "o", "v", "e", "r" >>
    /\ cProps[2].tuple[1] = << ":", "f", "o", "c", "u", "s" >>
    /\ cProps[1].properties = cProps[2].properties

\* C5: for every declaration list D, the rules (":hover", D) and (":focus", D)
\* compile to the same rule body and to two distinct classes, and their rules added
\* to one stylesheet give one entry with two distinct selectors.
C5_HoverAndFocusApart ==
    (cOut.set /\ HoverAndFocus) =>
        /\ Len(cOut.value.rules) = 2
        /\ cOut.value.rules[1].ruleBody = cOut.value.rules[2].ruleBody
        /\ Len(cOut.value.classes) = 2
        /\ cOut.value.classes[1] # cOut.value.classes[2]
        /\ Len(cSheet) = 1
        /\ Len(cSheet[1].selectors) = 2
        /\ cSheet[1].selectors[1] # cSheet[1].selectors[2]
        /\ cSheet[1].selectors[1] = << "." >> \o cOut.value.classes[1] \o cProps[1].tuple[1]
        /\ cSheet[1].selectors[2] = << "." >> \o cOut.value.classes[2] \o cProps[2].tuple[1]

C5_Witness == cOut.set /\ HoverAndFocus /\ cProps[1].properties # << >>

=============================================================================
